---- MODULE Spec2Model ----
(***************************************************************************)
(* Client-side file intake and result synchronisation of the stock         *)
(* screener.  Two intake/upload variants exist in the repository:          *)
(*   "script" : src/static/js/script.js  (the script the page loads;        *)
(*              accept-all intake, queue cleared on every upload path)      *)
(*   "part"   : src/unnamed/part_000     (extension-filtering intake,       *)
(*              queue cleared only after a rendered response)               *)
(* The variant is fixed in the initial state; every handler is modelled    *)
(* from the code of the variant it belongs to.  An asynchronous handler is  *)
(* cut at the awaits that wait for I/O (reading / decoding a bundle,        *)
(* reading a bundle entry, the fetch, reading the response body); the code  *)
(* between two such awaits runs as one atomic step.                         *)
(* The dark-mode control shares no state with the intake and the table; it  *)
(* is explored by its own specification, SpecDark, from a page not yet      *)
(* loaded, while Spec starts from a loaded page on a first visit.           *)
(***************************************************************************)
EXTENDS Naturals, Sequences, FiniteSets

\* ------------------------------------------------------------------ bounds
\* The user actions (drops and selections) of a run, the items they supply
\* in total, and the response items the service returns in total.
MaxActions == 2
MaxItems == 2
MaxResults == 2
\* The toggle clicks between two loads of the page.
MaxClicks == 8

\* ------------------------------------------------------------------- names
\* A name is a sequence of tokens; "/" and "\\" are the path separators and
\* an extension is one token.
\* Absent is a field the JSON value does not have (JavaScript's undefined);
\* Str is what a template literal or string concatenation makes of a value.
Absent == <<"<absent>">>
NA == <<"N/A">>
Undefined == <<"undefined">>

Str(x) ==
    IF x = Absent THEN Undefined ELSE x

EndsWith(name, suffix) ==
    Len(name) > 0 /\ name[Len(name)] = suffix

IsSep(tok) ==
    tok \in {"/", "\\"}

\* r.file_name.split(/[/\\]/).pop(): the tokens after the last separator.
RECURSIVE LastComponent(_)
LastComponent(name) ==
    IF name = <<>> THEN <<>>
    ELSE IF IsSep(name[Len(name)]) THEN <<>>
    ELSE Append(LastComponent(SubSeq(name, 1, Len(name) - 1)), name[Len(name)])

\* [...new Set(list)]: first occurrences, in order.
RECURSIVE Distinct(_)
Distinct(list) ==
    IF list = <<>> THEN <<>>
    ELSE LET init == Distinct(SubSeq(list, 1, Len(list) - 1))
             x == list[Len(list)]
         IN IF \E i \in 1..Len(init) : init[i] = x THEN init ELSE Append(init, x)

\* failedFiles.join("\n") as a token sequence.
RECURSIVE JoinNL(_)
JoinNL(list) ==
    IF list = <<>> THEN <<>>
    ELSE IF Len(list) = 1 THEN list[1]
    ELSE JoinNL(SubSeq(list, 1, Len(list) - 1)) \o <<"\n">> \o list[Len(list)]

\* All sequences over S of length 0..n.
RECURSIVE SeqsUpTo(_, _)
SeqsUpTo(S, n) ==
    IF n = 0 THEN {<<>>}
    ELSE LET shorter == SeqsUpTo(S, n - 1)
         IN shorter \cup {Append(s, x) : s \in shorter, x \in S}

\* ------------------------------------------------------------------ inputs
\* What the platform hands to a drop or change handler.  For a bundle,
\* corrupt says that JSZip.loadAsync rejects and entries are the keys of
\* zip.files in order.
RawItems ==
    { [name |-> <<"a", ".csv">>, type |-> "text/csv",
       corrupt |-> FALSE, entries |-> <<>>],
      [name |-> <<"n", ".txt">>, type |-> "text/plain",
       corrupt |-> FALSE, entries |-> <<>>],
      [name |-> <<"bad", ".zip">>, type |-> "application/zip",
       corrupt |-> TRUE, entries |-> <<>>],
      [name |-> <<"e", ".zip">>, type |-> "application/zip",
       corrupt |-> FALSE, entries |-> <<>>],
      [name |-> <<"t", ".zip">>, type |-> "application/zip",
       corrupt |-> FALSE, entries |-> << <<"r", ".txt">> >>],
      [name |-> <<"z", ".zip">>, type |-> "application/zip",
       corrupt |-> FALSE, entries |-> << <<"d", "/">>, <<"d", "/", "x", ".csv">> >>] }

ItemLists == SeqsUpTo(RawItems, MaxItems) \ {<<>>}

\* dataTransfer.files of a drop: empty when what is dropped is not a file.
DropLists == SeqsUpTo(RawItems, MaxItems)

\* The elements a results list of the service can hold.
\* null is the JSON value null in place of an object.
Item(isNull, file_name, error, chart_link) ==
    [null |-> isNull, file_name |-> file_name, error |-> error,
     chart_link |-> chart_link]

ResponseItems ==
    { Item(FALSE, <<"a", ".csv">>, Absent, <<"url">>),
      Item(FALSE, <<"x", ".csv">>, Absent, NA),
      Item(FALSE, <<"n", ".txt">>, Absent, Absent),
      Item(FALSE, <<"d", "/", "x", ".csv">>, <<"err">>, Absent),
      Item(FALSE, <<"x", ".csv">>, <<"err">>, Absent),
      Item(FALSE, <<"d", "/">>, <<"err">>, Absent),
      Item(FALSE, Absent, <<"err">>, Absent),
      Item(TRUE, Absent, Absent, Absent) }

\* What the response body can be: not JSON (res.json() rejects), JSON without
\* a results list, or JSON with one.
Bodies ==
    { [json |-> FALSE, hasResults |-> FALSE, results |-> <<>>],
      [json |-> TRUE, hasResults |-> FALSE, results |-> <<>>] }
    \cup { [json |-> TRUE, hasResults |-> TRUE, results |-> s] :
             s \in SeqsUpTo(ResponseItems, MaxResults) }

\* res.text() resolves or rejects.
TextOutcomes == {"text", "reject"}

FetchOutcomes == {"reject", "ok", "notok"}

Variants == {"script", "part"}
Handlers == 1..MaxActions

\* ------------------------------------------------------------------- state
VARIABLES
    variant,    \* which of the two scripts runs
    files,      \* the pending queue (global `files`)
    rows,       \* the rows of dataTable, in insertion order
    visible,    \* resultsContainer.style.display = 'block'
    alerts,     \* the alert() dialogs raised by the last step, in order
    fileInput,  \* fileInput.files, the picker's stored selection
    hs,         \* the drop / change handler invocations
    last,       \* the operation that produced this state
    dm,         \* dark mode: the page's class, the stored flag, the toggle
    solo        \* per handler: no other handler ran since it started

vars == <<variant, files, rows, visible, alerts, fileInput, hs, last, dm, solo>>

\* One invocation of the drop or change handler: where it waits (pc), the
\* items and bundle entries it has still to process, the FormData it sent,
\* and counts of what it was given and what it did.
IdleHandler ==
    [pc |-> "idle", items |-> <<>>, entries |-> <<>>,
     fd |-> <<>>, sent |-> FALSE, supplied |-> 0, answered |-> 0,
     pushed |-> 0, nalerts |-> 0, outcome |-> "none"]

RECURSIVE SumTo(_, _)
SumTo(F, n) ==
    IF n = 0 THEN 0 ELSE F[n] + SumTo(F, n - 1)

Supplied == SumTo([h \in Handlers |-> hs[h].supplied], MaxActions)
Answered == SumTo([h \in Handlers |-> hs[h].answered], MaxActions)

\* What localStorage.getItem('darkMode') can give when the page loads: null
\* (no item) or the string a previous session or anything else stored.
NoItem == "<null>"
StoredValues == {NoItem, "true", "false", "TRUE", "1", ""}

\* The page as parsed, before DOMContentLoaded: body without the dark-mode
\* class, the toggle showing the moon.  trail holds, for every toggle click
\* since the load, the page's class and the stored flag before the click.
ParsedPage(stored) ==
    [loaded |-> FALSE, dark |-> FALSE, stored |-> stored, label |-> "moon",
     trail |-> <<>>]

\* The DOMContentLoaded handler up to the registration of the click listener.
LoadedPage(page) ==
    LET dark == page.stored = "true"
    IN [page EXCEPT !.loaded = TRUE, !.dark = dark,
                    !.label = IF dark THEN "sun" ELSE "moon"]

InitPage ==
    /\ variant \in Variants
    /\ files = <<>>
    /\ rows = <<>>
    /\ visible = FALSE
    /\ alerts = <<>>
    /\ fileInput = <<>>
    /\ hs = [h \in Handlers |-> IdleHandler]
    /\ last = [op |-> "init", h |-> 0]
    /\ solo = [h \in Handlers |-> TRUE]

Init ==
    /\ InitPage
    /\ dm = LoadedPage(ParsedPage(NoItem))

\* ------------------------------------------------------------------ intake
\* The part of the state a handler's synchronous code reads and writes:
\* m.h is the handler's own record.
PushFile(m, hid, name, type) ==
    [m EXCEPT !.files = Append(@, [name |-> name, type |-> type,
                                   id |-> <<hid, m.h.pushed + 1>>]),
              !.h.pushed = @ + 1]

\* alert(...): one more blocking dialog, counted for the handler raising it.
Raise(m, hid, kind, names, plural) ==
    [m EXCEPT !.alerts = Append(@, [h |-> hid, kind |-> kind,
                                    names |-> names, plural |-> plural]),
              !.h.nalerts = @ + 1]

\* A doUpload without the empty-queue return.
DoUploadStartUnguarded(m) ==
    [m EXCEPT !.h.pc = "fetch", !.h.fd = m.files, !.h.sent = TRUE]

\* doUpload up to its first await: the empty-queue return, or the FormData
\* built from the queue and the fetch started.
DoUploadStart(m) ==
    IF Len(m.files) = 0
    THEN [m EXCEPT !.h.pc = "done", !.h.outcome = "noop"]
    ELSE [m EXCEPT !.h.pc = "fetch", !.h.fd = m.files, !.h.sent = TRUE]

\* A processFile whose extension check alerts and queues the item all the same.
ProcessPlainAlertAndPush(v, hid, m, f) ==
    IF v = "script" \/ EndsWith(f.name, ".csv") THEN PushFile(m, hid, f.name, f.type)
    ELSE PushFile(Raise(m, hid, "unsupported", <<f.name>>, FALSE), hid, f.name, f.type)

\* processFile for an item that is not a bundle.
ProcessPlain(v, hid, m, f) ==
    IF v = "script" THEN PushFile(m, hid, f.name, f.type)
    ELSE IF EndsWith(f.name, ".csv") THEN PushFile(m, hid, f.name, f.type)
    ELSE Raise(m, hid, "unsupported", <<f.name>>, FALSE)

\* The handler's loop over the remaining items, run until it waits for a
\* bundle's bytes or, at the end of the list, has cleared the picker and
\* called doUpload.
RECURSIVE RunItems(_, _, _)
RunItems(v, hid, m) ==
    IF m.h.items = <<>>
    THEN DoUploadStart([m EXCEPT !.fileInput = <<>>])
    ELSE LET f == Head(m.h.items)
         IN IF EndsWith(f.name, ".zip")
            THEN [m EXCEPT !.h.pc = "zip"]
            ELSE RunItems(v, hid,
                          [ProcessPlain(v, hid, m, f) EXCEPT !.h.items = Tail(@)])

\* The entries of a bundle the loop over Object.keys(zip.files) still awaits
\* a blob for: all of them (script) or those ending in .csv (part).
RECURSIVE NextEntries(_, _)
NextEntries(v, entries) ==
    IF v = "script" \/ entries = <<>> THEN entries
    ELSE IF EndsWith(Head(entries), ".csv") THEN entries
    ELSE NextEntries(v, Tail(entries))

\* The end of processFile for a bundle, then the rest of the handler loop.
FinishZip(v, hid, m, validFileFound) ==
    LET f == Head(m.h.items)
        noted == IF v = "script" /\ ~validFileFound
                 THEN Raise(m, hid, "nofiles", <<f.name>>, FALSE)
                 ELSE m
    IN RunItems(v, hid, [noted EXCEPT !.h.items = Tail(@), !.h.entries = <<>>])

\* The bundle loop from the given entries on: wait for the next blob, or
\* finish the bundle.
ContinueZip(v, hid, m, entries, validFileFound) ==
    LET e == NextEntries(v, entries)
    IN IF e # <<>>
       THEN [m EXCEPT !.h.pc = "entry", !.h.entries = e]
       ELSE FinishZip(v, hid, m, validFileFound)

Machine(h) ==
    [h |-> hs[h], files |-> files, alerts |-> <<>>, fileInput |-> fileInput,
     rows |-> rows, visible |-> visible, threw |-> FALSE]

\* The step of handler h ends: its effects are written back.
Commit(h, m, op) ==
    /\ hs' = [hs EXCEPT ![h] = m.h]
    /\ files' = m.files
    /\ alerts' = m.alerts
    /\ fileInput' = m.fileInput
    /\ rows' = m.rows
    /\ visible' = m.visible
    /\ last' = [op |-> op, h |-> h]
    /\ UNCHANGED dm

\* Handler g has started and not yet returned or failed.
Running(g) ==
    hs[g].pc \notin {"idle", "done", "failed"}

\* A drop on the drop zone or a change of the file picker: the handler up to
\* its first wait.
UserAction(h, src, items) ==
    /\ hs[h].pc = "idle"
    /\ \A g \in Handlers : g < h => hs[g].pc # "idle"
    /\ Supplied + Len(items) <= MaxItems
    /\ LET m0 == [Machine(h) EXCEPT
                     !.h.items = items, !.h.supplied = Len(items),
                     !.fileInput = IF src = "change" THEN items ELSE @]
       IN Commit(h, RunItems(variant, h, m0), src)
    /\ solo' = [g \in Handlers |->
                  IF g = h THEN \A k \in Handlers : ~Running(k)
                  ELSE solo[g] /\ ~Running(g)]
    /\ UNCHANGED variant

\* file.arrayBuffer() and JSZip.loadAsync(buf) settle for the bundle at the
\* head of the handler's items.
ZipLoaded(h) ==
    /\ hs[h].pc = "zip"
    /\ LET f == Head(hs[h].items)
           m == Machine(h)
       IN IF f.corrupt
          THEN Commit(h, [m EXCEPT !.h.pc = "failed", !.h.outcome = "decode"],
                      "zip")
          ELSE Commit(h, ContinueZip(variant, h, m, f.entries, FALSE), "zip")
    /\ UNCHANGED <<variant, solo>>

\* zip.files[name].async('blob') resolves for the awaited entry.
EntryRead(h) ==
    /\ hs[h].pc = "entry"
    /\ LET name == Head(hs[h].entries)
           m == PushFile(Machine(h), h, name, "text/csv")
       IN Commit(h, ContinueZip(variant, h, m, Tail(hs[h].entries), TRUE),
                 "entry")
    /\ UNCHANGED <<variant, solo>>

\* ------------------------------------------------------------------ upload
\* A visibility handler that never shows the area.
updateResultsVisibilityHide(m) ==
    [m EXCEPT !.visible = FALSE]

updateResultsVisibility(m) ==
    [m EXCEPT !.visible = Len(m.rows) > 0]

\* The <tr> built for one response item: the identity cell and its link.
MakeRow(r) ==
    [text |-> Str(r.file_name),
     link |-> r.chart_link # NA,
     href |-> IF r.chart_link # NA THEN Str(r.chart_link) ELSE <<>>]

\* results.forEach(...) of appendResults: reading a field of null throws and
\* leaves the rows added before it, without draw or visibility update.
RECURSIVE AddRows(_, _)
AddRows(m, results) ==
    IF results = <<>> THEN m
    ELSE IF Head(results).null THEN [m EXCEPT !.threw = TRUE]
    ELSE AddRows([m EXCEPT !.rows = Append(@, MakeRow(Head(results)))],
                 Tail(results))

appendResults(m, results) ==
    LET added == AddRows(m, results)
    IN IF added.threw THEN added ELSE updateResultsVisibility(added)

IsError(r) == r.error # Absent
IsValid(r) == ~IsError(r)

\* doUpload returns.
Returned(m, outcome) ==
    [m EXCEPT !.h.pc = "done", !.h.outcome = outcome]

\* A catch block that alerts and keeps the queue.
CatchKeepsQueue(v, hid, m, outcome) ==
    Returned(Raise(m, hid, "generic", <<>>, FALSE), outcome)

\* The catch block of doUpload, then its return.
Catch(v, hid, m, outcome) ==
    IF v = "script"
    THEN Returned([Raise(m, hid, "generic", <<>>, FALSE) EXCEPT !.files = <<>>],
                  outcome)
    ELSE Returned(Raise(m, hid, "uploaderror", <<>>, FALSE), outcome)

\* The consolidated alert for the failed items (script.js:106-117).
ReportFailed(hid, m, errorResults) ==
    LET failedFiles ==
            Distinct([i \in 1..Len(errorResults) |->
                        LastComponent(errorResults[i].file_name)])
        failedFilesMsg == JoinNL(failedFiles)
    IN IF Len(failedFilesMsg) > 0
       THEN Raise(m, hid, "failed", failedFiles, Len(failedFiles) > 1)
       ELSE m

\* doUpload from the parsed body on, script.js:97-123.
HandleBodyScript(hid, m, body) ==
    IF ~body.json THEN Catch("script", hid, m, "notjson")
    ELSE IF ~body.hasResults
            \/ \E i \in 1..Len(body.results) : body.results[i].null
    THEN Catch("script", hid, m, "threw")
    ELSE LET validResults == SelectSeq(body.results, IsValid)
             errorResults == SelectSeq(body.results, IsError)
             shown == IF Len(validResults) > 0
                      THEN appendResults(m, validResults) ELSE m
         IN IF Len(errorResults) = 0
            THEN Returned([shown EXCEPT !.files = <<>>], "rendered")
            ELSE IF \E i \in 1..Len(errorResults) :
                         errorResults[i].file_name = Absent
            THEN Catch("script", hid, shown, "threw")
            ELSE Returned([ReportFailed(hid, shown, errorResults)
                             EXCEPT !.files = <<>>], "rendered")

\* doUpload from the parsed body on, part_000:89-94.
HandleBodyPart(hid, m, body) ==
    IF ~body.json THEN Catch("part", hid, m, "notjson")
    ELSE IF ~body.hasResults THEN Catch("part", hid, m, "threw")
    ELSE LET shown == appendResults(m, body.results)
         IN IF shown.threw THEN Catch("part", hid, shown, "threw")
            ELSE Returned([shown EXCEPT !.files = <<>>], "rendered")

HandleBody(v, hid, m, body) ==
    IF v = "script" THEN HandleBodyScript(hid, m, body)
    ELSE HandleBodyPart(hid, m, body)

\* The fetch settles: it rejects, or resolves with a status; the code then
\* awaits the body (res.text() after a non-success status in script.js,
\* res.json() otherwise).
FetchSettled(h, out) ==
    /\ hs[h].pc = "fetch"
    /\ LET m == Machine(h)
       IN IF out = "reject"
          THEN Commit(h, Catch(variant, h, m, "rejected"), "fetch")
          ELSE IF variant = "script" /\ out = "notok"
          THEN Commit(h, [m EXCEPT !.h.pc = "text"], "fetch")
          ELSE Commit(h, [m EXCEPT !.h.pc = "json"], "fetch")
    /\ UNCHANGED <<variant, solo>>

\* res.text() settles; the Error of script.js:94 (or the rejection) is caught.
TextRead(h, t) ==
    /\ hs[h].pc = "text"
    /\ Commit(h, Catch(variant, h, Machine(h), "status"), "text")
    /\ UNCHANGED <<variant, solo>>

\* res.json() settles and the rest of doUpload runs.
JsonRead(h, body) ==
    /\ hs[h].pc = "json"
    /\ Answered + Len(body.results) <= MaxResults
    /\ LET m == [Machine(h) EXCEPT !.h.answered = Len(body.results)]
       IN Commit(h, HandleBody(variant, h, m, body), "json")
    /\ UNCHANGED <<variant, solo>>

\* ------------------------------------------------------------ result table
\* A remove control that deletes the first row whichever row it belongs to.
RemoveRowFirst(i) ==
    /\ i \in 1..Len(rows)
    /\ rows' = Tail(rows)
    /\ visible' = (Len(rows') > 0)
    /\ alerts' = <<>>
    /\ last' = [op |-> "remove", h |-> 0]
    /\ UNCHANGED <<variant, files, fileInput, hs, dm, solo>>

\* The per-row remove control of the i-th row.
RemoveRow(i) ==
    /\ i \in 1..Len(rows)
    /\ LET removed == [rows |-> SubSeq(rows, 1, i - 1) \o SubSeq(rows, i + 1, Len(rows)),
                       visible |-> visible]
       IN /\ rows' = removed.rows
          /\ visible' = updateResultsVisibility(removed).visible
    /\ alerts' = <<>>
    /\ last' = [op |-> "remove", h |-> 0]
    /\ UNCHANGED <<variant, files, fileInput, hs, dm, solo>>

\* The clear-all button.
ClearAll ==
    /\ LET cleared == [rows |-> <<>>, visible |-> visible]
       IN /\ rows' = cleared.rows
          /\ visible' = updateResultsVisibility(cleared).visible
    /\ alerts' = <<>>
    /\ last' = [op |-> "clear", h |-> 0]
    /\ UNCHANGED <<variant, files, fileInput, hs, dm, solo>>

\* ----------------------------------------------------------- specification
Next ==
    \/ \E h \in Handlers, items \in DropLists : UserAction(h, "drop", items)
    \/ \E h \in Handlers, items \in ItemLists : UserAction(h, "change", items)
    \/ \E h \in Handlers : ZipLoaded(h)
    \/ \E h \in Handlers : EntryRead(h)
    \/ \E h \in Handlers, out \in FetchOutcomes : FetchSettled(h, out)
    \/ \E h \in Handlers, t \in TextOutcomes : TextRead(h, t)
    \/ \E h \in Handlers, body \in Bodies : JsonRead(h, body)
    \/ \E i \in 1..MaxResults : RemoveRow(i)
    \/ ClearAll

Spec == Init /\ [][Next]_vars

\* The page as served: templates load static/js/script.js.
InitScript == Init /\ variant = "script"
SpecScript == InitScript /\ [][Next]_vars

\* The extension-filtering variant alone.
InitPart == Init /\ variant = "part"
SpecPart == InitPart /\ [][Next]_vars

\* --------------------------------------------------------------- dark mode
\* String(isDark), what localStorage.setItem stores for a boolean.
ToString(b) ==
    IF b THEN "true" ELSE "false"

\* DOMContentLoaded fires.
PageLoad ==
    /\ ~dm.loaded
    /\ dm' = LoadedPage(dm)
    /\ UNCHANGED <<variant, files, rows, visible, alerts, fileInput, hs, last, solo>>

\* A toggle that flips the page and does not store the flag.
ToggleClickNoStore ==
    /\ dm.loaded
    /\ Len(dm.trail) < MaxClicks
    /\ dm' = [dm EXCEPT !.dark = ~dm.dark,
                        !.label = IF ~dm.dark THEN "sun" ELSE "moon",
                        !.trail = Append(@, [dark |-> dm.dark, stored |-> dm.stored])]
    /\ UNCHANGED <<variant, files, rows, visible, alerts, fileInput, hs, last, solo>>

\* A click on the dark-mode toggle.
ToggleClick ==
    /\ dm.loaded
    /\ Len(dm.trail) < MaxClicks
    /\ LET isDark == ~dm.dark
       IN dm' = [dm EXCEPT !.dark = isDark,
                           !.stored = ToString(isDark),
                           !.label = IF isDark THEN "sun" ELSE "moon",
                           !.trail = Append(@, [dark |-> dm.dark,
                                                stored |-> dm.stored])]
    /\ UNCHANGED <<variant, files, rows, visible, alerts, fileInput, hs, last, solo>>

\* The page is loaded anew in a later session: only localStorage is kept.
PageReload ==
    /\ dm.loaded
    /\ dm' = ParsedPage(dm.stored)
    /\ UNCHANGED <<variant, files, rows, visible, alerts, fileInput, hs, last, solo>>

NextDark ==
    \/ PageLoad
    \/ ToggleClick
    \/ PageReload

InitDark ==
    /\ InitPage
    /\ \E stored \in StoredValues : dm = ParsedPage(stored)

SpecDark == InitDark /\ [][NextDark]_vars

\* ================================================================== claims
NamesOf(fs) == [i \in 1..Len(fs) |-> fs[i].name]
KindsOf(as) == [i \in 1..Len(as) |-> as[i].kind]
IsCsv(f) == EndsWith(f.name, ".csv")
IsOther(f) == ~IsCsv(f)
PlainOnly(items) == \A i \in 1..Len(items) : ~EndsWith(items[i].name, ".zip")
UploadAlertKinds == {"generic", "uploaderror", "failed"}

\* Handler h's doUpload returns in this step after a fetch.
UploadReturns(h) ==
    hs[h].pc \in {"fetch", "text", "json"} /\ hs'[h].pc = "done"

\* Handler h's intake ends and it calls doUpload in this step.
UploadCalled(h) ==
    hs[h].pc \in {"idle", "zip", "entry"}
    /\ hs'[h].pc \in {"fetch", "text", "json", "done"}

\* C1: every doUpload that sent a request leaves the pending queue empty when
\* it returns, whatever the terminal path (success, non-success status,
\* fetch rejection, unparsable body).
C1_QueueEmptyOnReturn ==
    [][\A h \in Handlers : UploadReturns(h) => files' = <<>>]_vars

\* C2: a success-status response whose results hold K success items and F
\* failure items (each with a file name) appends exactly K rows to the table
\* and raises exactly one consolidated alert with the distinct failed names
\* if F > 0, and no alert if F = 0.
WellFormed(body) ==
    /\ body.json /\ body.hasResults
    /\ \A i \in 1..Len(body.results) :
          ~body.results[i].null /\ body.results[i].file_name # Absent

C2_RowsAndOneAlert ==
    [][\A h \in Handlers, body \in Bodies :
         (JsonRead(h, body) /\ WellFormed(body)) =>
            LET succ == {i \in 1..Len(body.results) : body.results[i].error = Absent}
                fail == {i \in 1..Len(body.results) : body.results[i].error # Absent}
                K == Cardinality(succ)
                F == Cardinality(fail)
            IN /\ Len(rows') = Len(rows) + K
               /\ SubSeq(rows', 1, Len(rows)) = rows
               /\ F = 0 => alerts' = <<>>
               /\ F > 0 =>
                    /\ Len(alerts') = 1
                    /\ alerts'[1].kind = "failed"
                    /\ {alerts'[1].names[j] : j \in 1..Len(alerts'[1].names)}
                         = {LastComponent(body.results[i].file_name) : i \in fail}
                    /\ Len(alerts'[1].names) = Cardinality(
                         {LastComponent(body.results[i].file_name) : i \in fail})]_vars

\* C3: when the fetch rejects or the service answers with a non-success
\* status, doUpload creates no row, leaves the rows and the visibility of the
\* results area as they were, raises exactly one generic failure alert and
\* empties the queue.
C3_FailedUploadLeavesTable ==
    [][\A h \in Handlers :
         /\ ((hs[h].pc = "fetch" /\ hs'[h].pc = "done")
              \/ (hs[h].pc = "text" /\ hs'[h].pc # "text")) =>
               /\ rows' = rows
               /\ visible' = visible
               /\ files' = <<>>
               /\ KindsOf(alerts') = <<"generic">>
               /\ hs'[h].pc = "done"
         /\ (hs[h].pc = "fetch" /\ hs'[h].pc = "text") =>
               /\ rows' = rows
               /\ visible' = visible
               /\ alerts' = <<>>]_vars

\* A non-success status was answered to a second upload while the table held
\* a row of the first.
C3_Witness ==
    \E h \in Handlers :
        /\ last = [op |-> "text", h |-> h]
        /\ hs[h].outcome = "status"
        /\ Len(rows) > 0
        /\ visible
        /\ files = <<>>

\* C4: a corrupt bundle aborts only that bundle: the handler that met it goes
\* on to classify the remaining items and to call doUpload, it never ends on
\* the decode failure.
C4_CorruptBundleAbortsOnlyItself ==
    \A h \in Handlers : hs[h].pc # "failed"

\* C5: the results area is shown if and only if the table has at least one
\* row, initially and after every append, removal, clear and doUpload.
C5_VisibleIffRows ==
    visible <=> Len(rows) > 0

\* A row was removed and another one is left, the area still shown.
C5_Witness ==
    last.op = "remove" /\ Len(rows) = 1 /\ visible

C7_EmptyQueueNoOp ==
    [][\A h \in Handlers :
         (UploadCalled(h) /\ files' = <<>>) =>
            /\ hs'[h].pc = "done"
            /\ ~hs'[h].sent
            /\ hs'[h].fd = <<>>
            /\ files = <<>>
            /\ rows' = rows
            /\ visible' = visible
            /\ \A i \in 1..Len(alerts') : alerts'[i].kind \notin UploadAlertKinds]_vars

\* A handler ended in doUpload's empty-queue return.
C7_Witness ==
    \E h \in Handlers :
        /\ last.h = h
        /\ hs[h].pc = "done" /\ hs[h].outcome = "noop"
        /\ hs[h].supplied > 0
        /\ files = <<>>

\* C8: the remove control of a row deletes exactly that row and leaves the
\* others as they were; the results area is hidden after the last row is
\* removed and shown after another one is.  Clear-all deletes every row and
\* hides the results area.
C8_RemoveAndClear ==
    [][/\ \A i \in 1..MaxResults :
            RemoveRow(i) =>
               /\ Len(rows') = Len(rows) - 1
               /\ \A j \in 1..Len(rows') :
                     rows'[j] = IF j < i THEN rows[j] ELSE rows[j + 1]
               /\ visible' <=> Len(rows) > 1
       /\ ClearAll => (rows' = <<>> /\ ~visible')]_vars

\* The second of two different rows was removed and the first is left.
C8_Witness ==
    /\ last.op = "remove"
    /\ Len(rows) = 1
    /\ rows[1].link
    /\ visible

\* C9: a success-status response with a malformed body (not JSON, no results
\* list, a null item or a failure item without file_name) ends like a
\* transport failure: one generic alert, queue cleared, no row appended.
Malformed(body) ==
    \/ ~body.json
    \/ ~body.hasResults
    \/ \E i \in 1..Len(body.results) :
          \/ body.results[i].null
          \/ body.results[i].error # Absent /\ body.results[i].file_name = Absent

C9_MalformedLikeTransportFailure ==
    [][\A h \in Handlers, body \in Bodies :
         (JsonRead(h, body) /\ Malformed(body)) =>
            /\ KindsOf(alerts') = <<"generic">>
            /\ files' = <<>>
            /\ rows' = rows]_vars

\* C10: a bundle that yields no usable entry (no entry at all without the
\* extension filter, no .csv entry with it) queues nothing and raises exactly
\* one notice naming the bundle.
NoUsableEntry(v, f) ==
    IF v = "script" THEN f.entries = <<>>
    ELSE \A i \in 1..Len(f.entries) : ~EndsWith(f.entries[i], ".csv")

C10_UnusableBundleNoticed ==
    [][\A h \in Handlers :
         (hs[h].pc = "zip" /\ hs'[h] # hs[h]
          /\ ~Head(hs[h].items).corrupt
          /\ NoUsableEntry(variant, Head(hs[h].items))) =>
            /\ hs'[h].pc # "entry"
            /\ Cardinality({i \in 1..Len(alerts') :
                              alerts'[i].names = <<Head(hs[h].items).name>>}) = 1]_vars

\* C11: the stored dark-mode flag and the page agree: once loaded, the page
\* is dark exactly when the stored flag is 'true' (no flag means light); after
\* a toggle click the stored flag is the string of the page's dark state; two
\* consecutive clicks give back the page's state and the flag's meaning.
C11_FlagAgreesWithPage ==
    /\ dm.loaded => (dm.dark <=> dm.stored = "true")
    /\ dm.loaded => (dm.label = "sun" <=> dm.dark)
    /\ Len(dm.trail) >= 1 =>
          /\ dm.dark => dm.stored = "true"
          /\ ~dm.dark => dm.stored = "false"
          /\ dm.dark # dm.trail[Len(dm.trail)].dark
    /\ Len(dm.trail) >= 2 =>
          LET before == dm.trail[Len(dm.trail) - 1]
          IN /\ dm.dark = before.dark
             /\ (dm.stored = "true") <=> (before.stored = "true")

\* Two clicks after a load without a stored flag: the page is light again.
C11_Witness ==
    /\ Len(dm.trail) = 2
    /\ dm.trail[1].stored = NoItem
    /\ ~dm.dark
    /\ dm.stored = "false"

\* The files carried by the request of handler h, by identity.
SentIds(h) ==
    IF hs[h].sent THEN {hs[h].fd[i].id : i \in 1..Len(hs[h].fd)} ELSE {}

InFlight(h) ==
    hs[h].pc \in {"fetch", "text", "json"}

\* C12: no file is sent twice: whatever the interleaving of user actions and
\* uploads, a file appended to the queue is carried by at most one request.
C12_NoFileSentTwice ==
    \A g, h \in Handlers : g # h => SentIds(g) \cap SentIds(h) = {}

\* C13: in every reachable state, no file of the pending queue is part of a
\* request that is in flight (sent and not yet answered).
C13_QueuedNotInFlight ==
    \A h \in Handlers :
        InFlight(h) => \A i \in 1..Len(files) : files[i].id \notin SentIds(h)

\* C14: no stale file lingers: when every handler that started has finished
\* (returned or failed) and no upload is in flight, the queue is empty.
C14_NoStaleFile ==
    (/\ \A h \in Handlers : hs[h].pc \in {"idle", "done", "failed"}
     /\ \E h \in Handlers : hs[h].pc \in {"done", "failed"})
    => files = <<>>

\* C15: with no other user action interleaved, the request of a user action
\* carries exactly the files that action appended to the queue, one part per
\* file, in the order they were appended.
C15_RequestCarriesOwnFiles ==
    \A h \in Handlers :
        (hs[h].sent /\ solo[h]) =>
            /\ Len(hs[h].fd) = hs[h].pushed
            /\ \A i \in 1..Len(hs[h].fd) : hs[h].fd[i].id = <<h, i>>

\* C16: a user action, its intake and its upload together, shows at most
\* one blocking notification.
C16_OneNoticePerAction ==
    \A h \in Handlers : hs[h].nalerts <= 1

\* C17: rows are created only from response items without an error
\* indicator and are destroyed only by the remove control or by clear-all:
\* every other step keeps the existing rows as they are, only the handling of
\* a parsed response adds rows, and it adds at most one row per item without
\* an error indicator, each of them the row of such an item.
C17_RowsOnlyFromSuccessItems ==
    [][/\ last'.op \notin {"remove", "clear"} =>
            /\ Len(rows') >= Len(rows)
            /\ SubSeq(rows', 1, Len(rows)) = rows
       /\ last'.op \notin {"remove", "clear", "json"} => rows' = rows
       /\ \A h \in Handlers, body \in Bodies :
            JsonRead(h, body) =>
               LET ok == {i \in 1..Len(body.results) :
                            ~body.results[i].null /\ IsValid(body.results[i])}
               IN /\ Len(rows') - Len(rows) <= Cardinality(ok)
                  /\ \A k \in (Len(rows) + 1)..Len(rows') :
                        \E i \in ok : rows'[k] = MakeRow(body.results[i])]_vars

\* C18: when a well-formed response holds at least one failure item, the
\* consolidated failure alert is shown; it names every distinct failed file
\* exactly once by its last path component, in the singular form exactly when
\* there is one distinct name and in the plural form when there are more.
C18_FailureAlertNamesEachOnce ==
    [][\A h \in Handlers, body \in Bodies :
         (/\ JsonRead(h, body)
          /\ WellFormed(body)
          /\ \E i \in 1..Len(body.results) : IsError(body.results[i])) =>
            LET failed == {LastComponent(body.results[i].file_name) :
                             i \in {j \in 1..Len(body.results) :
                                       IsError(body.results[j])}}
            IN /\ Len(alerts') = 1
               /\ alerts'[1].kind = "failed"
               /\ Len(alerts'[1].names) = Cardinality(failed)
               /\ {alerts'[1].names[k] : k \in 1..Len(alerts'[1].names)} = failed
               /\ alerts'[1].plural <=> Cardinality(failed) > 1]_vars

\* C19: a file leaves the pending queue only after some request has carried
\* it: no step drops from the queue a file that no request was built with.
C19_NoFileDiscardedUnsent ==
    [][\A i \in 1..Len(files) :
         (\A j \in 1..Len(files') : files'[j].id # files[i].id) =>
            \E h \in Handlers : files[i].id \in SentIds(h)]_vars

\* C20: the row of a success item shows the file name, as a link to the
\* chart exactly when the item provides a chart link, and as plain text when
\* chart_link is the marker 'N/A' or is absent.
C20_LinkIffChartProvided ==
    [][\A h \in Handlers, body \in Bodies :
         (JsonRead(h, body) /\ WellFormed(body)) =>
            LET valid == SelectSeq(body.results, IsValid)
            IN /\ Len(rows') = Len(rows) + Len(valid)
               /\ \A k \in 1..Len(valid) :
                     LET r == valid[k]
                         row == rows'[Len(rows) + k]
                     IN /\ row.text = Str(r.file_name)
                        /\ row.link <=> r.chart_link \notin {NA, Absent}
                        /\ row.link => row.href = Str(r.chart_link)]_vars

====
